---- MODULE Spec2Model ----
(***************************************************************************)
(* Corral: named intervals ("corrals") over a media-query axis, whose      *)
(* fences (min, max, both) fire enter/exit events when the answer of the   *)
(* media query for a fence changes.                                        *)
(*                                                                         *)
(* The repository holds two versions of the library, src/corral.js and an  *)
(* earlier draft, src/unnamed/part_000.  Both define Corral; the variable  *)
(* `draft` says which of the two files is loaded.  Where the two files     *)
(* differ, each has its own definition (suffix Draft for part_000).        *)
(*                                                                         *)
(* Every action is one whole synchronous call of the public interface.     *)
(* A callback is opaque: it is a name, it may raise, and it does not call  *)
(* back into the library.  Lengths such as '320px' are modelled by their   *)
(* number of pixels.                                                       *)
(***************************************************************************)
EXTENDS Integers, Sequences, FiniteSets, TLC

----------------------------------------------------------------------------
(* Bounds of the model *)

\* Corral objects constructed in one run
MaxObjs == 1
\* callbacks held by the Corral objects
MaxCbs == 2
\* Corral objects constructed in one run of the registry interface
MaxCorrals == 2
\* resize events that call throttleEvent before a timeout runs
MaxBurst == 3
\* CorralStatic objects constructed in one run
MaxStatics == 2

----------------------------------------------------------------------------
(* Values *)

\* null, the value of a fence that is not set
Null == -1

CorralJs == "corral.js"
Part000 == "part_000"
Drafts == {CorralJs, Part000}

\* fenceNames and actionNames
fenceNames == {"min", "max", "both"}
actionNames == {"enter", "exit"}

\* the fences in the opposite order, which C6 tells from the order of the
\* code
checkFencesReversed == <<"max", "min">>

\* the fences checkThisCorral walks through, in its order
checkFences == <<"min", "max">>

\* the bounds standing in for a missing fence: '1px' and '20000px'
MinSentinel == 1
MaxSentinel == 20000
\* parseFloat(null)
NaN == -2

\* the corrals the constructor is called for: the first two of the header's
\* example, new Corral('mobile', 'width', null, '320px') and
\* new Corral('tablet', 'width', '321px', '768px')
CorralArgs ==
    { [name |-> "mobile", axis |-> "width", min |-> Null, max |-> 320],
      [name |-> "tablet", axis |-> "width", min |-> 321, max |-> 768] }

\* callbacks: f returns, boom raises
Callbacks == {"f", "boom"}
Raises(cb) == cb = "boom"

\* event namespaces an event name may carry ("" for none)
NoNamespace == ""
Namespaces == {NoNamespace}

\* a value passed where callbacks are expected: undefined, or an array of
\* functions (a single function is the array holding it)
Undefined == [def |-> FALSE, fns |-> <<>>]
Fns(fns) == [def |-> TRUE, fns |-> fns]

\* the callbacks argument of the constructor: undefined, or an object whose
\* keys are fences, each with an enter and an exit value; the shorthand
\* object that holds enter and exit itself has shorthand set
NoCallbacks == [shorthand |-> FALSE, sets |-> <<>>]
CtorCallbacks ==
    { NoCallbacks,
      [shorthand |-> TRUE,
       sets |-> << [fence |-> "", enter |-> Fns(<<"f">>), exit |-> Fns(<<"f">>)] >>] }

----------------------------------------------------------------------------
(* State *)

VARIABLES
    draft,      \* which source file is loaded
    corrals,    \* the registry: name/object pairs in insertion order
    heap,       \* every Corral object constructed so far
    call,       \* the call that has just returned: operation and arguments
    log,        \* the events that call dispatched, in order
    threw,      \* whether that call raised
    win,        \* the window: its viewport, the size kept at load, and the timer
    corralsStatic,  \* the registry of CorralStatic objects, as corrals
    heapStatic,     \* every CorralStatic object constructed so far
    staticAxes      \* the statically set min and max of each axis that has them

vars == <<draft, corrals, heap, call, log, threw, win,
          corralsStatic, heapStatic, staticAxes>>

ObjIds == 1..Len(heap)

Key(action, ns) == [action |-> action, ns |-> ns]

\* _callbacks as the constructor initialises it: the keys enter and exit of
\* each fence, and the flag active of each fence
NewSlots == << [key |-> Key("enter", NoNamespace), fns |-> <<>>],
               [key |-> Key("exit", NoNamespace), fns |-> <<>>] >>
NewActive == [f \in fenceNames |-> FALSE]

----------------------------------------------------------------------------
(* Callback lists *)

RECURSIVE Listeners(_, _)
\* corralTrigger's walk through the keys of a fence: the callbacks of every
\* key that starts with the action, in key order
Listeners(slots, action) ==
    IF slots = <<>> THEN <<>>
    ELSE (IF Head(slots).key.action = action THEN Head(slots).fns ELSE <<>>)
         \o Listeners(Tail(slots), action)

\* the draft's fenceCallbacks[action]
ListenersDraft(slots, action) ==
    LET hit == { i \in 1..Len(slots) : slots[i].key = Key(action, NoNamespace) }
    IN IF hit = {} THEN <<>> ELSE slots[CHOOSE i \in hit : TRUE].fns

\* a loop that goes on after a callback has raised, which C24 tells from
\* the code
RunCallbacksThrough(fns) ==
    [calls |-> fns, threw |-> \E i \in 1..Len(fns) : Raises(fns[i])]

RECURSIVE RunCallbacks(_)
\* calling the callbacks in order; one that raises ends the loop
RunCallbacks(fns) ==
    IF fns = <<>> THEN [calls |-> <<>>, threw |-> FALSE]
    ELSE IF Raises(Head(fns)) THEN [calls |-> <<Head(fns)>>, threw |-> TRUE]
    ELSE LET rest == RunCallbacks(Tail(fns))
         IN [calls |-> <<Head(fns)>> \o rest.calls, threw |-> rest.threw]

\* one dispatched event: the callbacks called, the flags when they started,
\* and the depth of the trigger call that dispatched it (0: on() calling a
\* callback at subscription)
Event(id, fence, action, calls, at, depth) ==
    [obj |-> id, fence |-> fence, action |-> action,
     calls |-> calls, at |-> at, depth |-> depth]

----------------------------------------------------------------------------
(* trigger *)

\* the complement of a fence, as corralTrigger computes it
Complement(fence) == IF fence = "min" THEN "max" ELSE "min"

\* a trigger without the early return, which C1 tells from the code
AlreadyFiredNever(active, fence, action, force) == FALSE

\* an early return that ignores force, which C10 tells from the code
AlreadyFiredForced(active, fence, action, force) ==
    active[fence] = (action = "enter")

\* corralTrigger's early return: the event has already been fired and is
\* not forced
AlreadyFired(active, fence, action, force) ==
    active[fence] = (action = "enter") /\ ~force

\* a cascade that does not look at the complement, which C7 tells from
\* the code
TriggersBothUngated(active, fence, action, force, triggerBoth) ==
    /\ triggerBoth
    /\ active["both"] # (action = "enter")
    /\ ~force

\* a cascade that does not look at the flag of 'both', which C28 tells
\* from the code
TriggersBothRepeated(active, fence, action, force, triggerBoth) ==
    /\ triggerBoth
    /\ active[Complement(fence)]
    /\ ~force

\* a cascade that does not look at triggerBoth, which C29 tells from the
\* code
TriggersBothAlways(active, fence, action, force, triggerBoth) ==
    /\ active[Complement(fence)]
    /\ active["both"] # (action = "enter")
    /\ ~force

\* a trigger without the cascade, which C31 tells from the code
TriggersBothNever(active, fence, action, force, triggerBoth) == FALSE

\* corralTrigger's condition for triggering the event of 'both'
TriggersBoth(active, fence, action, force, triggerBoth) ==
    /\ triggerBoth
    /\ active[Complement(fence)]
    /\ active["both"] # (action = "enter")
    /\ ~force

\* the state a trigger call works on: the flags of the object, the log,
\* whether a callback has raised, the depth of the current trigger call and
\* the deepest call so far
TriggerState(active, lg) ==
    [active |-> active, log |-> lg, threw |-> FALSE, depth |-> 0, deepest |-> 0]

Enter(s) ==
    [s EXCEPT !.depth = @ + 1,
              !.deepest = IF s.depth + 1 > @ THEN s.depth + 1 ELSE @]
Leave(s) == [s EXCEPT !.depth = @ - 1]

\* the callback loop of corralTrigger and the flag it sets afterwards
Fire(id, fns, s, fence, action) ==
    LET run == RunCallbacks(fns)
        s1 == [s EXCEPT !.log = Append(@, Event(id, fence, action, run.calls,
                                                s.active, s.depth)),
                        !.threw = run.threw]
    IN IF run.threw THEN s1
       ELSE [s1 EXCEPT !.active[fence] = (action = "enter")]

RECURSIVE corralTrigger(_, _, _, _, _, _, _)
\* src/corral.js, instance.trigger(eventName, force, triggerBoth) on object
\* id with callbacks cbs
corralTrigger(id, cbs, s0, fence, action, force, triggerBoth) ==
    LET s == Enter(s0) IN
    IF AlreadyFired(s.active, fence, action, force) THEN Leave(s)
    ELSE
      LET s2 == Fire(id, Listeners(cbs[fence], action), s, fence, action)
      IN
      IF s2.threw THEN Leave(s2)
      ELSE IF TriggersBoth(s2.active, fence, action, force, triggerBoth)
      THEN Leave(corralTrigger(id, cbs, s2, "both", action, FALSE, TRUE))
      ELSE Leave(s2)

RECURSIVE corralTriggerDraft(_, _, _, _, _, _, _)
\* src/unnamed/part_000, instance.trigger(eventName, force, triggerBoth)
corralTriggerDraft(id, cbs, s0, fence, action, force, triggerBoth) ==
    LET s == Enter(s0) IN
    IF AlreadyFired(s.active, fence, action, force) THEN Leave(s)
    ELSE
      LET s2 == Fire(id, ListenersDraft(cbs[fence], action), s, fence, action)
      IN
      IF s2.threw THEN Leave(s2)
      ELSE IF fence = "both"
      THEN Leave([s2 EXCEPT !.active["min"] = s2.active["both"],
                            !.active["max"] = s2.active["both"]])
      ELSE IF TriggersBoth(s2.active, fence, action, force, triggerBoth)
      THEN Leave(corralTriggerDraft(id, cbs, s2, "both", action, FALSE, TRUE))
      ELSE Leave(s2)

\* the trigger method of the loaded file
TriggerOf(id, cbs, s, fence, action, force, triggerBoth) ==
    IF draft = CorralJs
    THEN corralTrigger(id, cbs, s, fence, action, force, triggerBoth)
    ELSE corralTriggerDraft(id, cbs, s, fence, action, force, triggerBoth)

----------------------------------------------------------------------------
(* check *)

\* a query without the sentinels, which C30 tells from the code
queryOwnBound(o, fence) ==
    [axis |-> o.axis, fence |-> fence, value |-> o[fence]]

\* Corral.prototype.query: the media query of a fence of object o
query(o, fence) ==
    [axis |-> o.axis, fence |-> fence,
     value |-> IF o[fence] # Null THEN o[fence]
               ELSE IF fence = "min" THEN MinSentinel ELSE MaxSentinel]

\* the queries check() asks for object o
QueriesOf(o) == { query(o, checkFences[i]) : i \in 1..Len(checkFences) }

\* staticAxes = {}
NoAxes == [axis \in {} |-> [min |-> Null, max |-> Null]]

\* a parseFloat that gives null back
parseFloatThrough(value) == value

\* parseFloat of the values at hand: a number is itself, null is NaN
parseFloat(value) == IF value = Null THEN NaN ELSE value

\* a >= b and a <= b of JavaScript numbers: false when either is NaN
NotLess(a, b) == a # NaN /\ b # NaN /\ a >= b
NotGreater(a, b) == a # NaN /\ b # NaN /\ a <= b

\* src/corral.js, tryMediaQuery: matches is the set of queries matchMedia
\* says match, axes is staticAxes; a query that does not match is compared
\* with the static values of its axis
tryMediaQuery(axes, matches, q) ==
    LET match == q \in matches
    IN IF ~match /\ q.axis \in DOMAIN axes
       THEN \/ /\ q.fence = "min"
               /\ NotLess(parseFloat(axes[q.axis].min), parseFloat(q.value))
            \/ /\ q.fence = "max"
               /\ NotGreater(parseFloat(axes[q.axis].max), parseFloat(q.value))
       ELSE match

\* src/unnamed/part_000, tryMediaQuery: matchMedia's answer
tryMediaQueryDraft(matches, q) == q \in matches

RECURSIVE checkLoop(_, _, _, _, _, _)
\* src/corral.js, the loop of checkThisCorral over the fences from index i
checkLoop(id, o, axes, matches, s, i) ==
    IF i > Len(checkFences) \/ s.threw THEN s
    ELSE LET fence == checkFences[i]
         IN checkLoop(id, o, axes, matches,
                IF tryMediaQuery(axes, matches, query(o, fence))
                THEN corralTrigger(id, o.cbs, s, fence, "enter", FALSE, TRUE)
                ELSE corralTrigger(id, o.cbs, s, fence, "exit", FALSE, TRUE),
                i + 1)

RECURSIVE checkLoopDraft(_, _, _, _, _)
\* src/unnamed/part_000, the loop of checkThisCorral: it triggers only when
\* the answer differs from the flag
checkLoopDraft(id, o, matches, s, i) ==
    IF i > Len(checkFences) \/ s.threw THEN s
    ELSE LET fence == checkFences[i]
         IN checkLoopDraft(id, o, matches,
                IF tryMediaQueryDraft(matches, query(o, fence))
                THEN (IF ~s.active[fence]
                      THEN corralTriggerDraft(id, o.cbs, s, fence, "enter", FALSE, TRUE)
                      ELSE s)
                ELSE (IF s.active[fence]
                      THEN corralTriggerDraft(id, o.cbs, s, fence, "exit", FALSE, TRUE)
                      ELSE s),
                i + 1)

\* instance.check() of the loaded file on object o (number id), continuing
\* the log lg, while staticAxes is axes
checkThisCorral(id, o, axes, matches, lg) ==
    IF draft = CorralJs
    THEN checkLoop(id, o, axes, matches, TriggerState(o.active, lg), 1)
    ELSE checkLoopDraft(id, o, matches, TriggerState(o.active, lg), 1)

----------------------------------------------------------------------------
(* Objects and the registry *)

\* the positions of name in the registry
Positions(reg, name) == { i \in 1..Len(reg) : reg[i].name = name }

\* corrals.hasOwnProperty(name)
Registered(reg, name) == Positions(reg, name) # {}

\* corrals[name]
Lookup(reg, name) == reg[CHOOSE i \in Positions(reg, name) : TRUE].obj

\* corrals[name] = this: a new key is added last, an old key keeps its place
\* a registration that keeps the object a name already has, which C22 tells
\* from the code
RegisterKeeping(reg, name, id) ==
    IF Registered(reg, name) THEN reg
    ELSE Append(reg, [name |-> name, obj |-> id])

Register(reg, name, id) ==
    IF Registered(reg, name)
    THEN [i \in 1..Len(reg) |->
            IF reg[i].name = name THEN [name |-> name, obj |-> id] ELSE reg[i]]
    ELSE Append(reg, [name |-> name, obj |-> id])

\* the objects in the registry
RegisteredIds == { corrals[i].obj : i \in 1..Len(corrals) }

\* the event last dispatched on each fence of an object by trigger (the
\* history of the object, not a field of the program): "exit" before any
NeverFired == [f \in {"min", "max"} |-> "exit"]

RECURSIVE LastFired(_, _, _, _)
LastFired(lg, id, fence, before) ==
    IF lg = <<>> THEN before
    ELSE LET e == lg[Len(lg)]
         IN IF e.obj = id /\ e.fence = fence /\ e.depth > 0 THEN e.action
            ELSE LastFired(SubSeq(lg, 1, Len(lg) - 1), id, fence, before)

\* object o (number id) after a call that left its flags as active and
\* logged lg
Settle(o, id, active, lg) ==
    [o EXCEPT !.active = active,
              !.fired = [f \in {"min", "max"} |-> LastFired(lg, id, f, o.fired[f])]]

\* sanitiseCallbacks: the array of functions, or an error
sanitiseCallbacks(v) == [threw |-> ~v.def, fns |-> v.fns]

\* the list of a key of a fence replaced by fns
SetSlot(slots, action, fns) ==
    [i \in 1..Len(slots) |->
        IF slots[i].key = Key(action, NoNamespace)
        THEN [slots[i] EXCEPT !.fns = fns] ELSE slots[i]]

RECURSIVE InstallCallbacks(_, _, _)
\* the constructor's loop over the keys of its callbacks argument, from
\* index i: both lists of a fence are replaced, and a value that is no
\* function or array raises
InstallCallbacks(cbs, arg, i) ==
    IF i > Len(arg.sets) THEN [cbs |-> cbs, threw |-> FALSE]
    ELSE
      LET set == arg.sets[i]
          fence == IF arg.shorthand THEN "both" ELSE set.fence
          en == sanitiseCallbacks(set.enter)
          ex == sanitiseCallbacks(set.exit)
      IN
      IF fence \notin fenceNames THEN InstallCallbacks(cbs, arg, i + 1)
      ELSE IF en.threw THEN [cbs |-> cbs, threw |-> TRUE]
      ELSE IF ex.threw
      THEN [cbs |-> [cbs EXCEPT ![fence] = SetSlot(@, "enter", en.fns)],
            threw |-> TRUE]
      ELSE InstallCallbacks(
             [cbs EXCEPT ![fence] = SetSlot(SetSlot(@, "enter", en.fns),
                                            "exit", ex.fns)],
             arg, i + 1)

RECURSIVE CountFns(_)
\* the number of callbacks in the lists of a fence
CountFns(slots) ==
    IF slots = <<>> THEN 0 ELSE Len(Head(slots).fns) + CountFns(Tail(slots))

\* the number of callbacks object o holds
Subscribed(o) ==
    CountFns(o.cbs["min"]) + CountFns(o.cbs["max"]) + CountFns(o.cbs["both"])

RECURSIVE SubscribedAll(_)
\* the number of callbacks the objects of h hold
SubscribedAll(h) ==
    IF h = <<>> THEN 0 ELSE Subscribed(Head(h)) + SubscribedAll(Tail(h))

\* the record of a call
Call(op, id, fence, action, force, triggerBoth, cb, matches) ==
    [op |-> op, obj |-> id, fence |-> fence, action |-> action,
     force |-> force, triggerBoth |-> triggerBoth, cb |-> cb,
     matches |-> matches]

\* no call has been made, or the caller has taken the result of the last
Idle == Call("idle", 0, "", "", FALSE, FALSE, "", {})

----------------------------------------------------------------------------
(* Actions *)

\* a viewport size, as getViewportSize returns it
ViewportSize(width, height) == [width |-> width, height |-> height]

\* the sizes the browser takes: portrait and landscape of a phone, and the
\* same with a toolbar that hides
ViewportSizes ==
    { ViewportSize(w, h) : w \in {320, 480}, h \in {480, 320} }

\* the window when the file has been loaded: size is the viewport,
\* original is viewportSizeOriginal, pending is the number of timeouts of
\* checkAllCorrals the window holds, timer says whether the timeout of
\* resizeEventTimeoutID is one of them; notified (the size at the last
\* resize event), unchecked (a resize event has changed the size and
\* checkAllCorrals has not run since), burst (the resize events that have
\* called throttleEvent since the run before the last of them) and runs
\* (the runs of checkAllCorrals by a timeout since the last of them) are
\* the history of the window, not fields of the program
LoadedWindow ==
    [size |-> ViewportSize(320, 480), original |-> ViewportSize(320, 480),
     timer |-> FALSE, pending |-> 0,
     notified |-> ViewportSize(320, 480), unchecked |-> FALSE,
     burst |-> 0, runs |-> 0]

Init ==
    /\ draft \in Drafts
    /\ corrals = <<>>
    /\ heap = <<>>
    /\ call = Idle
    /\ log = <<>>
    /\ threw = FALSE
    /\ win = LoadedWindow
    /\ corralsStatic = <<>>
    /\ heapStatic = <<>>
    /\ staticAxes = NoAxes

\* new Corral(name, axis, min, max, callbacks), while matchMedia matches
\* the queries in matches; the object is registered first, and when the
\* callbacks argument raises it stays registered without its accessors
\* and methods, which the constructor assigns afterwards
Construct(args, callbacks, matches) ==
    /\ call = Idle
    /\ LET id == Len(heap) + 1
           inst == InstallCallbacks([f \in fenceNames |-> NewSlots], callbacks, 1)
           o == [name |-> args.name, axis |-> args.axis,
                 min |-> args.min, max |-> args.max,
                 active |-> NewActive, cbs |-> inst.cbs, fired |-> NeverFired,
                 methods |-> ~inst.threw]
           s == checkThisCorral(id, o, staticAxes, matches, <<>>)
       IN /\ corrals' = Register(corrals, args.name, id)
          /\ IF inst.threw
             THEN /\ heap' = Append(heap, o)
                  /\ log' = <<>>
                  /\ threw' = TRUE
             ELSE /\ heap' = Append(heap, Settle(o, id, s.active, s.log))
                  /\ log' = s.log
                  /\ threw' = s.threw
          /\ call' = Call("create", id, "", "", FALSE, FALSE, "", matches)
    /\ UNCHANGED <<draft, win, corralsStatic, heapStatic, staticAxes>>

\* the constructor, as long as fewer than MaxObjs objects exist
Create(args, callbacks, matches) ==
    /\ Len(heap) < MaxObjs
    /\ Construct(args, callbacks, matches)

\* instance.check()
Check(id, matches) ==
    /\ call = Idle
    /\ LET s == checkThisCorral(id, heap[id], staticAxes, matches, <<>>)
       IN /\ heap' = [heap EXCEPT ![id] = Settle(@, id, s.active, s.log)]
          /\ log' = s.log
          /\ threw' = s.threw
    /\ call' = Call("check", id, "", "", FALSE, FALSE, "", matches)
    /\ UNCHANGED <<draft, corrals, win, corralsStatic, heapStatic, staticAxes>>

RECURSIVE checkAllLoop(_, _, _, _, _, _)
\* checkAllCorrals' loop over the registry reg from index i: h is the heap
\* so far, lg the log so far, axes is staticAxes; a check that raises ends
\* the loop, and so
\* does the check of an object without its accessors, where query raises
\* a TypeError
checkAllLoop(reg, h, axes, matches, lg, i) ==
    IF i > Len(reg) THEN [heap |-> h, log |-> lg, threw |-> FALSE]
    ELSE IF ~h[reg[i].obj].methods
    THEN [heap |-> h, log |-> lg, threw |-> TRUE]
    ELSE LET id == reg[i].obj
             s == checkThisCorral(id, h[id], axes, matches, lg)
             h1 == [h EXCEPT ![id] = Settle(@, id, s.active, s.log)]
         IN IF s.threw THEN [heap |-> h1, log |-> s.log, threw |-> TRUE]
            ELSE checkAllLoop(reg, h1, axes, matches, s.log, i + 1)

\* checkAllCorrals()
CheckAll(matches) ==
    /\ call = Idle
    /\ LET r == checkAllLoop(corrals, heap, staticAxes, matches, <<>>, 1)
       IN /\ heap' = r.heap
          /\ log' = r.log
          /\ threw' = r.threw
    /\ call' = Call("checkAll", 0, "", "", FALSE, FALSE, "", matches)
    /\ UNCHANGED <<draft, corrals, win, corralsStatic, heapStatic, staticAxes>>

\* instance.trigger(action + '-' + fence, force, triggerBoth)
Trigger(id, fence, action, force, triggerBoth) ==
    /\ call = Idle
    /\ LET s == TriggerOf(id, heap[id].cbs, TriggerState(heap[id].active, <<>>),
                          fence, action, force, triggerBoth)
       IN /\ heap' = [heap EXCEPT ![id] = Settle(@, id, s.active, s.log)]
          /\ log' = s.log
          /\ threw' = s.threw
    /\ call' = Call("trigger", id, fence, action, force, triggerBoth, "", {})
    /\ UNCHANGED <<draft, corrals, win, corralsStatic, heapStatic, staticAxes>>

\* the list of key k of a fence with cb added; a key not yet there is added
\* last
PushSlot(slots, k, cb) ==
    IF \E i \in 1..Len(slots) : slots[i].key = k
    THEN [i \in 1..Len(slots) |->
            IF slots[i].key = k THEN [slots[i] EXCEPT !.fns = Append(@, cb)]
            ELSE slots[i]]
    ELSE Append(slots, [key |-> k, fns |-> <<cb>>])

\* a subscription that keeps the callback without calling it, which C14
\* tells from the code
corralOnSilent(id, o, fence, action, ns, cb) ==
    [cbs |-> [o.cbs EXCEPT ![fence] = PushSlot(@, Key(action, ns), cb)],
     log |-> <<>>, threw |-> FALSE]

\* src/corral.js, instance.on(action + '-' + fence + '.' + ns, cb) on
\* object o: the callback is called when the event applies now, then kept
corralOn(id, o, fence, action, ns, cb) ==
    LET applies == (o.active[fence] = (action = "enter"))
        lg == IF applies
              THEN << Event(id, fence, action, <<cb>>, o.active, 0) >>
              ELSE <<>>
    IN IF applies /\ Raises(cb)
       THEN [cbs |-> o.cbs, log |-> lg, threw |-> TRUE]
       ELSE [cbs |-> [o.cbs EXCEPT ![fence] = PushSlot(@, Key(action, ns), cb)],
             log |-> lg, threw |-> FALSE]

\* src/unnamed/part_000, instance.on: an event name with a namespace is no
\* event name there
corralOnDraft(id, o, fence, action, ns, cb) ==
    IF ns # NoNamespace THEN [cbs |-> o.cbs, log |-> <<>>, threw |-> TRUE]
    ELSE corralOn(id, o, fence, action, ns, cb)

On(id, fence, action, ns, cb) ==
    /\ call = Idle
    /\ SubscribedAll(heap) < MaxCbs
    /\ LET r == IF draft = CorralJs
                THEN corralOn(id, heap[id], fence, action, ns, cb)
                ELSE corralOnDraft(id, heap[id], fence, action, ns, cb)
       IN /\ heap' = [heap EXCEPT ![id].cbs = r.cbs]
          /\ log' = r.log
          /\ threw' = r.threw
    /\ call' = Call("on", id, fence, action, FALSE, FALSE, cb, {})
    /\ UNCHANGED <<draft, corrals, win, corralsStatic, heapStatic, staticAxes>>

\* the caller takes the result of the call and goes on
Return ==
    /\ call # Idle
    /\ call' = Idle
    /\ log' = <<>>
    /\ threw' = FALSE
    /\ UNCHANGED <<draft, corrals, heap, win, corralsStatic, heapStatic, staticAxes>>

\* the queries checkAllCorrals asks
AllQueries == UNION { QueriesOf(heap[id]) : id \in RegisteredIds }

Next ==
    \/ \E args \in CorralArgs, callbacks \in CtorCallbacks :
          \E matches \in SUBSET { query(args, "min"), query(args, "max") } :
             Create(args, callbacks, matches)
    \/ \E id \in ObjIds : \E matches \in SUBSET QueriesOf(heap[id]) :
          Check(id, matches)
    \/ \E matches \in SUBSET AllQueries : CheckAll(matches)
    \/ \E id \in ObjIds, fence \in fenceNames, action \in actionNames,
          force \in BOOLEAN, triggerBoth \in BOOLEAN :
          Trigger(id, fence, action, force, triggerBoth)
    \/ \E id \in ObjIds, fence \in fenceNames, action \in actionNames,
          ns \in Namespaces, cb \in Callbacks :
          On(id, fence, action, ns, cb)
    \/ Return

Spec == Init /\ [][Next]_vars

\* the calls of a driver that never forces an event and whose callbacks
\* all return
NextQuiet ==
    \/ \E args \in CorralArgs, callbacks \in CtorCallbacks :
          \E matches \in SUBSET { query(args, "min"), query(args, "max") } :
             Create(args, callbacks, matches)
    \/ \E id \in ObjIds : \E matches \in SUBSET QueriesOf(heap[id]) :
          Check(id, matches)
    \/ \E matches \in SUBSET AllQueries : CheckAll(matches)
    \/ \E id \in ObjIds, fence \in fenceNames, action \in actionNames,
          triggerBoth \in BOOLEAN :
          Trigger(id, fence, action, FALSE, triggerBoth)
    \/ \E id \in ObjIds, fence \in fenceNames, action \in actionNames,
          ns \in Namespaces, cb \in { c \in Callbacks : ~Raises(c) } :
          On(id, fence, action, ns, cb)
    \/ Return

SpecQuiet == Init /\ [][NextQuiet]_vars

----------------------------------------------------------------------------
(* Unsubscribing and removing *)

\* the namespaces of the event names passed to on and off
EventNamespaces == {NoNamespace, "a", "b"}

\* the callbacks argument of off: a callback, or undefined
NoCallback == ""
OffCallbacks == Callbacks \cup {NoCallback}

RECURSIVE DeleteSlot(_, _)
\* delete _callbacks[fence][k]
DeleteSlot(slots, k) ==
    IF slots = <<>> THEN <<>>
    ELSE (IF Head(slots).key = k THEN <<>> ELSE <<Head(slots)>>)
         \o DeleteSlot(Tail(slots), k)

\* _callbacks[fence][k] = []
ClearSlot(slots, k) ==
    [i \in 1..Len(slots) |->
        IF slots[i].key = k THEN [slots[i] EXCEPT !.fns = <<>>] ELSE slots[i]]

\* the callbacks _callbacks[fence][k] holds, none when the key is missing
\* (what off finds when it is called)
HeldUnder(slots, k) ==
    LET hit == { i \in 1..Len(slots) : slots[i].key = k }
    IN IF hit = {} THEN <<>> ELSE slots[CHOOSE i \in hit : TRUE].fns

\* an off that removes nothing, which C17 tells from the code
corralOffNothing(o, fence, action, ns, cb) == [cbs |-> o.cbs, threw |-> FALSE]

\* an off that empties the lists of every fence, which C33 tells from the
\* code
corralOffEverywhere(o, fence, action, ns, cb) ==
    [cbs |-> [f \in fenceNames |-> ClearSlot(o.cbs[f], Key(action, NoNamespace))],
     threw |-> FALSE]

\* src/corral.js, instance.off(action + '-' + fence + '.' + ns, cb) on
\* object o: the function takes the event name only, so that cb is not
\* looked at; a namespaced key is deleted, the key of the action is emptied
corralOff(o, fence, action, ns, cb) ==
    [cbs |-> [o.cbs EXCEPT ![fence] =
                 IF ns # NoNamespace THEN DeleteSlot(@, Key(action, ns))
                 ELSE ClearSlot(@, Key(action, ns))],
     threw |-> FALSE]

\* src/unnamed/part_000, instance.off: an event name with a namespace is no
\* event name; a callback that is not in the list is passed over; in every
\* other case the function reads eventInfo.callback.fence, where
\* eventInfo.callback is undefined, and raises a TypeError before it
\* deletes anything
corralOffDraft(o, fence, action, ns, cb) ==
    [cbs |-> o.cbs,
     threw |-> ~ (/\ ns = NoNamespace
                  /\ cb # NoCallback
                  /\ \A i \in 1..Len(ListenersDraft(o.cbs[fence], action)) :
                        ListenersDraft(o.cbs[fence], action)[i] # cb)]

\* instance.off(eventName, cb)
Off(id, fence, action, ns, cb) ==
    /\ call = Idle
    /\ LET r == IF draft = CorralJs
                THEN corralOff(heap[id], fence, action, ns, cb)
                ELSE corralOffDraft(heap[id], fence, action, ns, cb)
       IN /\ heap' = [heap EXCEPT ![id].cbs = r.cbs]
          /\ threw' = r.threw
    /\ log' = <<>>
    /\ call' = Call("off", id, fence, action, FALSE, FALSE, cb, {})
                  @@ [ns |-> ns, had |-> HeldUnder(heap[id].cbs[fence], Key(action, ns))]
    /\ UNCHANGED <<draft, corrals, win, corralsStatic, heapStatic, staticAxes>>

\* instance.on(eventName, cb) with any namespace
OnNs(id, fence, action, ns, cb) ==
    /\ ns \in EventNamespaces
    /\ On(id, fence, action, ns, cb)

\* what `corral.name` is for an instance: the accessor function, which
\* hasOwnProperty turns into its source text
NameAccessor == "function (val) { return _getSet('name', val); }"

\* the ways of removing a corral: Corral.remove(name), Corral.remove(instance)
\* and instance.remove()
RemoveWays == {"name", "instance", "method"}

\* a removal that empties the registry, which C21 tells from the code
UnregisterAll(reg, name) == <<>>

\* the registry without the key name
Unregister(reg, name) ==
    LET keep == { i \in 1..Len(reg) : reg[i].name # name }
        RECURSIVE Pick(_)
        Pick(i) == IF i > Len(reg) THEN <<>>
                   ELSE (IF i \in keep THEN <<reg[i]>> ELSE <<>>) \o Pick(i + 1)
    IN Pick(1)

\* Corral.remove(corral): the key is the argument, or corral.name for an
\* instance
removeCorral(reg, isInstance, name) ==
    LET corralName == IF isInstance THEN NameAccessor ELSE name
    IN IF Registered(reg, corralName)
       THEN [corrals |-> Unregister(reg, corralName), ret |-> "true"]
       ELSE [corrals |-> reg, ret |-> "false"]

\* Corral.remove(name), Corral.remove(heap[id]) or heap[id].remove(); the
\* method returns nothing
Remove(way, id, name) ==
    /\ call = Idle
    /\ way = "name" => id = (IF Registered(corrals, name)
                             THEN Lookup(corrals, name) ELSE 0)
    /\ way # "name" => id \in ObjIds /\ name = heap[id].name
    /\ LET r == removeCorral(corrals, way # "name", name)
       IN /\ corrals' = r.corrals
          /\ call' = [op |-> "remove", way |-> way, obj |-> id, name |-> name,
                      ret |-> IF way = "method" THEN "undefined" ELSE r.ret]
    /\ log' = <<>>
    /\ threw' = FALSE
    /\ UNCHANGED <<draft, heap, win, corralsStatic, heapStatic, staticAxes>>

\* the names a driver may pass to Corral.remove
Names == { args.name : args \in CorralArgs }

\* the fences a driver of the subscription interface subscribes to,
\* unsubscribes from and triggers
SubFences == {"min", "both"}

\* the subscription interface: construction, on and off with namespaces,
\* and an unforced trigger
NextSubs ==
    \/ \E args \in CorralArgs, callbacks \in CtorCallbacks :
          \E matches \in SUBSET { query(args, "min"), query(args, "max") } :
             Create(args, callbacks, matches)
    \/ \E id \in ObjIds, fence \in SubFences, action \in actionNames :
          Trigger(id, fence, action, FALSE, TRUE)
    \/ \E id \in ObjIds, fence \in SubFences, action \in actionNames,
          ns \in EventNamespaces, cb \in Callbacks :
          OnNs(id, fence, action, ns, cb)
    \/ \E id \in ObjIds, fence \in SubFences, action \in actionNames,
          ns \in EventNamespaces, cb \in OffCallbacks :
          Off(id, fence, action, ns, cb)
    \/ Return

SpecSubs == Init /\ [][NextSubs]_vars

\* the registry interface: construction of up to MaxCorrals objects,
\* removal, and checkAllCorrals
CreateCorral(args, callbacks, matches) ==
    /\ Len(heap) < MaxCorrals
    /\ Construct(args, callbacks, matches)

NextRegistry ==
    \/ \E args \in CorralArgs, callbacks \in CtorCallbacks :
          \E matches \in SUBSET { query(args, "min"), query(args, "max") } :
             CreateCorral(args, callbacks, matches)
    \/ \E matches \in SUBSET AllQueries : CheckAll(matches)
    \/ \E way \in RemoveWays, id \in 0..Len(heap), name \in Names :
          Remove(way, id, name)
    \/ Return

SpecRegistry == Init /\ [][NextRegistry]_vars

\* a driver that constructs corrals and checks them, and does nothing else:
\* the callbacks are those of the constructor, which return
NextChecks ==
    \/ \E args \in CorralArgs, callbacks \in CtorCallbacks :
          \E matches \in SUBSET { query(args, "min"), query(args, "max") } :
             CreateCorral(args, callbacks, matches)
    \/ \E id \in ObjIds : \E matches \in SUBSET QueriesOf(heap[id]) :
          Check(id, matches)
    \/ \E matches \in SUBSET AllQueries : CheckAll(matches)
    \/ Return

SpecChecks == Init /\ [][NextChecks]_vars

\* callbacks arguments the constructor refuses: a fence with enter alone,
\* and an enter that is no function
CtorCallbacksRefused ==
    { [shorthand |-> FALSE,
       sets |-> << [fence |-> "min", enter |-> Fns(<<"f">>), exit |-> Undefined] >>],
      [shorthand |-> TRUE,
       sets |-> << [fence |-> "", enter |-> Undefined, exit |-> Fns(<<"f">>)] >>] }

\* a driver that constructs corrals with any callbacks argument, and calls
\* checkAllCorrals
NextCtor ==
    \/ \E args \in CorralArgs, callbacks \in CtorCallbacks \cup CtorCallbacksRefused :
          \E matches \in SUBSET { query(args, "min"), query(args, "max") } :
             CreateCorral(args, callbacks, matches)
    \/ \E matches \in SUBSET AllQueries : CheckAll(matches)
    \/ Return

SpecCtor == Init /\ [][NextCtor]_vars


\* an event name as split('.') and split('-') take it apart: head is the
\* part before the first dot, cut at its hyphens, and rest the parts behind
\* the dots; the parts themselves hold no dot and no hyphen
EventName(head, rest) == [head |-> head, rest |-> rest]

\* the event names a driver passes: 'enter-min', 'exit-min' and
\* 'enter-min-x', 'enter' (no hyphen), 'leave-min' (no action) and
\* 'enter-mid' (no fence), each bare and with the namespace 'a'
EventHeads ==
    { <<"enter", "min">>, <<"exit", "min">>, <<"enter", "min", "x">>,
      <<"enter">>, <<"leave", "min">>, <<"enter", "mid">> }
EventRests == { <<>>, <<"a">> }
RawEventNames == { EventName(h, r) : h \in EventHeads, r \in EventRests }

\* join('.') of the parts behind the first dot; the names above have at
\* most one, which join returns as it is
JoinDots(parts) == IF parts = <<>> THEN NoNamespace ELSE parts[1]

\* what a refused event name parses to
NoEvent == [ok |-> FALSE, action |-> "", fence |-> "", ns |-> NoNamespace]

\* a parser that checks the hyphen only and reads an unknown part as
\* 'enter' or 'min', which C25 tells from the code
parseEventNameLax(eventName) ==
    LET fenceAndEventName == eventName.head
    IN IF Len(fenceAndEventName) < 2 THEN NoEvent
       ELSE [ok |-> TRUE,
             action |-> IF fenceAndEventName[1] \in actionNames
                        THEN fenceAndEventName[1] ELSE "enter",
             fence |-> IF fenceAndEventName[2] \in fenceNames
                       THEN fenceAndEventName[2] ELSE "min",
             ns |-> JoinDots(eventName.rest)]

\* src/corral.js, parseEventName: ok is false where the function throws
parseEventName(eventName) ==
    LET fenceAndEventName == eventName.head
    IN IF Len(fenceAndEventName) < 2 THEN NoEvent
       ELSE IF fenceAndEventName[1] \notin actionNames THEN NoEvent
       ELSE IF fenceAndEventName[2] \notin fenceNames THEN NoEvent
       ELSE [ok |-> TRUE, action |-> fenceAndEventName[1],
             fence |-> fenceAndEventName[2], ns |-> JoinDots(eventName.rest)]

\* the last part of split('-') when the name has dots: a string with a dot
\* in it, which is no action name and no fence name
DottedPart == "x.a"

\* src/unnamed/part_000, eventName.split('-'): the dots stay in the last
\* part
SplitHyphens(eventName) ==
    IF eventName.rest = <<>> THEN eventName.head
    ELSE [i \in 1..Len(eventName.head) |->
            IF i = Len(eventName.head) THEN DottedPart ELSE eventName.head[i]]

\* src/unnamed/part_000, parseEventName
parseEventNameDraft(eventName) ==
    LET splitEventName == SplitHyphens(eventName)
    IN IF Len(splitEventName) < 2 THEN NoEvent
       ELSE IF splitEventName[1] \notin actionNames THEN NoEvent
       ELSE IF splitEventName[2] \notin fenceNames THEN NoEvent
       ELSE [ok |-> TRUE, action |-> splitEventName[1],
             fence |-> splitEventName[2], ns |-> NoNamespace]

\* isEventName of the loaded file
isEventName(eventName) ==
    IF draft = CorralJs THEN parseEventName(eventName).ok
    ELSE parseEventNameDraft(eventName).ok

\* the parsed event of the loaded file
EventInfo(eventName) ==
    IF draft = CorralJs THEN parseEventName(eventName)
    ELSE parseEventNameDraft(eventName)

\* on, off or trigger throwing 'unknown event name'
UnknownEventName(method, id, eventName) ==
    /\ call = Idle
    /\ call' = [op |-> "named", method |-> method, obj |-> id,
                eventName |-> eventName]
    /\ log' = <<>>
    /\ threw' = TRUE
    /\ UNCHANGED <<draft, corrals, heap, win, corralsStatic, heapStatic, staticAxes>>

\* instance.on(eventName, cb)
OnNamed(id, eventName, cb) ==
    IF isEventName(eventName)
    THEN LET e == EventInfo(eventName)
         IN On(id, e.fence, e.action, e.ns, cb)
    ELSE UnknownEventName("on", id, eventName)

\* instance.off(eventName, cb)
OffNamed(id, eventName, cb) ==
    IF isEventName(eventName)
    THEN LET e == EventInfo(eventName)
         IN Off(id, e.fence, e.action, e.ns, cb)
    ELSE UnknownEventName("off", id, eventName)

\* instance.trigger(eventName, force, triggerBoth)
TriggerNamed(id, eventName, force, triggerBoth) ==
    IF isEventName(eventName)
    THEN LET e == EventInfo(eventName)
         IN Trigger(id, e.fence, e.action, force, triggerBoth)
    ELSE UnknownEventName("trigger", id, eventName)

\* the methods Corral._event forwards to
EventTypes == {"on", "off", "trigger"}

\* corral[eventType](eventName, callback)
Forward(eventType, id, eventName, cb) ==
    CASE eventType = "on" -> cb \in Callbacks /\ OnNamed(id, eventName, cb)
      [] eventType = "off" -> OffNamed(id, eventName, cb)
      [] eventType = "trigger" ->
            cb = NoCallback /\ TriggerNamed(id, eventName, FALSE, TRUE)

\* how a call of Corral.on, Corral.off or Corral.trigger ends when it
\* reaches no corral: ret is what the caller gets
Unreached(eventType, name, ret) ==
    /\ call = Idle
    /\ call' = [op |-> "helper", type |-> eventType, name |-> name,
                found |-> Registered(corrals, name), ret |-> ret]
    /\ log' = <<>>
    /\ threw' = (ret = "TypeError")
    /\ UNCHANGED <<draft, corrals, heap, win, corralsStatic, heapStatic, staticAxes>>

\* Corral.on(corral, eventName, cb), Corral.off(corral, eventName, cb) and
\* Corral.trigger(corral, eventName), where corral is the object id (id > 0)
\* or else the name: src/unnamed/part_000 forwards to the instance or to the
\* registered corral of the name and does nothing else; src/corral.js has
\* no such property of Corral, so that the call is a TypeError
EventHelper(eventType, id, name, eventName, cb) ==
    IF draft = CorralJs THEN
        /\ id = 0
        /\ cb = NoCallback
        /\ eventName = EventName(<<"enter", "min">>, <<>>)
        /\ Unreached(eventType, name, "TypeError")
    ELSE IF id > 0 THEN
        /\ id \in ObjIds
        /\ name = heap[id].name
        /\ Forward(eventType, id, eventName, cb)
    ELSE IF Registered(corrals, name)
    THEN Forward(eventType, Lookup(corrals, name), eventName, cb)
    ELSE
        /\ cb = NoCallback
        /\ eventName = EventName(<<"enter", "min">>, <<>>)
        /\ Unreached(eventType, name, "undefined")

\* String(breakpoints), the key getAllBreakpoints looks up in corrals
ObjectString == "[object Object]"

\* Corral.breakpoints(): the loop reads corrals[breakpoints], where
\* breakpoints is the result object and not the name, so that min() is
\* called on undefined unless a corral is named like String({})
getAllBreakpoints(reg, h) ==
    IF reg = <<>> THEN [threw |-> FALSE, ret |-> {}]
    ELSE IF ~Registered(reg, ObjectString) THEN [threw |-> TRUE, ret |-> {}]
    ELSE LET b == h[Lookup(reg, ObjectString)]
         IN [threw |-> FALSE,
             ret |-> { [name |-> reg[i].name, axis |-> h[reg[i].obj].axis,
                        min |-> b.min, max |-> b.max] : i \in 1..Len(reg) }]

Breakpoints ==
    /\ call = Idle
    /\ LET r == getAllBreakpoints(corrals, heap)
       IN /\ call' = [op |-> "breakpoints", ret |-> r.ret]
          /\ threw' = r.threw
    /\ log' = <<>>
    /\ UNCHANGED <<draft, corrals, heap, win, corralsStatic, heapStatic, staticAxes>>

\* the corrals of the header's example: desktop has no max
CorralArgsOpen ==
    CorralArgs \cup {[name |-> "desktop", axis |-> "width", min |-> 769, max |-> Null]}

\* the names a driver may pass to the helpers
NamesOpen == { args.name : args \in CorralArgsOpen }

\* the interface by event name: construction, on, off and trigger with
\* event names as the driver writes them, the helpers of the registry and
\* Corral.breakpoints
NextNamed ==
    \/ \E args \in CorralArgsOpen, callbacks \in CtorCallbacks :
          \E matches \in SUBSET { query(args, "min"), query(args, "max") } :
             Create(args, callbacks, matches)
    \/ \E id \in ObjIds, eventName \in RawEventNames, cb \in Callbacks :
          OnNamed(id, eventName, cb)
    \/ \E id \in ObjIds, eventName \in RawEventNames, cb \in OffCallbacks :
          OffNamed(id, eventName, cb)
    \/ \E id \in ObjIds, eventName \in RawEventNames :
          TriggerNamed(id, eventName, FALSE, TRUE)
    \/ \E eventType \in EventTypes, id \in 0..Len(heap), name \in NamesOpen,
          eventName \in RawEventNames, cb \in OffCallbacks :
          EventHelper(eventType, id, name, eventName, cb)
    \/ Breakpoints
    \/ Return

SpecNamed == Init /\ [][NextNamed]_vars

----------------------------------------------------------------------------
(* The resize event *)

\* a handler that throttles when either side has changed since the last
\* event, which is what C27 asks of the code
SchedulesOnChange(w, viewportSizeNew) == viewportSizeNew # w.notified

\* checkAllCorralsThrottled's condition for throttleEvent(checkAllCorrals):
\* both sides differ from the size at load
SchedulesCheck(w, viewportSizeNew) ==
    /\ viewportSizeNew.width # w.original.width
    /\ viewportSizeNew.height # w.original.height

\* src/unnamed/part_000, checkAllCorralsThrottled: no condition
SchedulesCheckDraft(w, viewportSizeNew) == TRUE

\* a throttleEvent that sets its timeout and clears none
throttleEventKeeping(w) == [w EXCEPT !.pending = @ + 1, !.timer = TRUE]

\* throttleEvent: clearTimeout(resizeEventTimeoutID), which takes that
\* timeout from the window when it is pending, then setTimeout(callback,
\* 100), whose id resizeEventTimeoutID keeps
throttleEvent(w) ==
    [w EXCEPT !.pending = (IF w.timer THEN @ - 1 ELSE @) + 1, !.timer = TRUE]

\* the browser gives the viewport the size viewportSizeNew and fires the
\* resize event (some browsers fire it while the size is the same):
\* checkAllCorralsThrottled runs
Resize(viewportSizeNew) ==
    /\ call = Idle
    /\ LET w == [win EXCEPT !.size = viewportSizeNew,
                            !.notified = viewportSizeNew,
                            !.unchecked = @ \/ viewportSizeNew # win.notified]
           schedules == IF draft = CorralJs
                        THEN SchedulesCheck(win, viewportSizeNew)
                        ELSE SchedulesCheckDraft(win, viewportSizeNew)
           counted == [w EXCEPT !.burst = IF w.runs > 0 THEN 1 ELSE @ + 1,
                                !.runs = 0]
       IN /\ schedules => (win.burst < MaxBurst \/ win.runs > 0)
          /\ win' = IF schedules THEN throttleEvent(counted) ELSE w
    /\ UNCHANGED <<draft, corrals, heap, call, log, threw, corralsStatic, heapStatic, staticAxes>>

\* 100 ms have passed since a setTimeout of throttleEvent: the oldest
\* pending timeout runs checkAllCorrals
Timeout(matches) ==
    /\ call = Idle
    /\ win.pending > 0
    /\ LET r == checkAllLoop(corrals, heap, staticAxes, matches, <<>>, 1)
       IN /\ heap' = r.heap
          /\ log' = r.log
          /\ threw' = r.threw
    /\ call' = Call("timeout", 0, "", "", FALSE, FALSE, "", matches)
    /\ win' = [win EXCEPT !.pending = @ - 1,
                          !.timer = @ /\ win.pending > 1,
                          !.unchecked = FALSE,
                          !.runs = @ + 1]
    /\ UNCHANGED <<draft, corrals, corralsStatic, heapStatic, staticAxes>>

\* the timeout with any answers of matchMedia
TimeoutRuns == \E matches \in SUBSET AllQueries : Timeout(matches)

\* the window: construction, resize events and the timeout
NextResize ==
    \/ \E args \in CorralArgs, callbacks \in CtorCallbacks :
          \E matches \in SUBSET { query(args, "min"), query(args, "max") } :
             Create(args, callbacks, matches)
    \/ \E viewportSizeNew \in ViewportSizes : Resize(viewportSizeNew)
    \/ TimeoutRuns
    \/ Return

SpecResize == Init /\ [][NextResize]_vars

\* the browser runs a pending timeout once 100 ms pass without a resize
\* event, and a caller goes on after a call
SpecResizeFair ==
    /\ SpecResize
    /\ WF_vars(TimeoutRuns)
    /\ WF_vars(Return)

----------------------------------------------------------------------------
(* Static corrals *)

\* the arguments of new CorralStatic(name, axis, min, max): a phone and
\* anything wider on the width, a tall screen on the height
StaticArgs ==
    { [name |-> "phone", corral |-> Null, axis |-> "width", min |-> Null, max |-> 320],
      [name |-> "wide", corral |-> Null, axis |-> "width", min |-> 321, max |-> Null],
      [name |-> "tall", corral |-> Null, axis |-> "height", min |-> 480, max |-> Null] }

\* the arguments of new CorralStatic(name, corral), for Corral object id:
\* _props holds no axis, min or max
StaticArgsOf(id) ==
    [name |-> "like", corral |-> id, axis |-> "", min |-> Null, max |-> Null]

StaticIds == 1..Len(heapStatic)

\* _getSet('axis') of static corral so: the corral's axis() when so was
\* given a corral and holds no axis of its own; h is the heap
staticAxis(so, h) ==
    IF so.corral # Null /\ so.axis = "" THEN h[so.corral].axis ELSE so.axis

\* _getSet('min') and _getSet('max') of static corral so, likewise
staticBound(so, h, prop) ==
    IF so.corral # Null /\ so[prop] = Null THEN h[so.corral][prop] ELSE so[prop]

\* staticAxes[axis] = {min: min, max: max}, whether or not axes has the key
SetAxis(axes, axis, min, max) ==
    [a \in DOMAIN axes \cup {axis} |->
        IF a = axis THEN [min |-> min, max |-> max] ELSE axes[a]]

\* delete staticAxes[axis]
DeleteAxis(axes, axis) == [a \in DOMAIN axes \ {axis} |-> axes[a]]

\* the names CorralStaticTrigger takes, and one it refuses
StaticEventNames == {"enter", "exit", "leave"}

\* CorralStaticTrigger up to its call of checkAllCorrals, on static corral
\* so while staticAxes is axes: the static corral and staticAxes
\* afterwards, and whether it raised
CorralStaticTrigger(so, axes, h, eventName, force) ==
    IF eventName = "enter"
    THEN IF ~so.active \/ force
         THEN [threw |-> FALSE, so |-> [so EXCEPT !.active = TRUE],
               axes |-> SetAxis(axes, staticAxis(so, h),
                                staticBound(so, h, "min"),
                                staticBound(so, h, "max"))]
         ELSE [threw |-> FALSE, so |-> so, axes |-> axes]
    ELSE IF eventName = "exit"
    THEN IF so.active \/ force
         THEN [threw |-> FALSE, so |-> [so EXCEPT !.active = FALSE],
               axes |-> DeleteAxis(axes, staticAxis(so, h))]
         ELSE [threw |-> FALSE, so |-> so, axes |-> axes]
    ELSE [threw |-> TRUE, so |-> so, axes |-> axes]

\* a call of the static interface
StaticCall(method, sid, eventName, force, matches) ==
    [op |-> "static", method |-> method, obj |-> sid, eventName |-> eventName,
     force |-> force, matches |-> matches]

\* static corral sid, being so, runs trigger(eventName, force) while
\* matchMedia matches the queries in matches: the trigger, then
\* checkAllCorrals with staticAxes as the trigger left it
RunStaticTrigger(sid, so, objs, eventName, force, matches) ==
    LET t == CorralStaticTrigger(so, staticAxes, heap, eventName, force)
        r == checkAllLoop(corrals, heap, t.axes, matches, <<>>, 1)
    IN /\ heapStatic' = [objs EXCEPT ![sid] = t.so]
       /\ staticAxes' = t.axes
       /\ IF t.threw
          THEN /\ heap' = heap
               /\ log' = <<>>
               /\ threw' = TRUE
          ELSE /\ heap' = r.heap
               /\ log' = r.log
               /\ threw' = r.threw

\* static.trigger(eventName, force)
StaticTrigger(sid, eventName, force, matches) ==
    /\ call = Idle
    /\ RunStaticTrigger(sid, heapStatic[sid], heapStatic, eventName, force, matches)
    /\ call' = StaticCall("trigger", sid, eventName, force, matches)
    /\ UNCHANGED <<draft, corrals, win, corralsStatic>>

\* checkThisCorralStatic's event: enter when the class of the document
\* element holds the name, exit when it does not
StaticCheckEvent(classed) == IF classed THEN "enter" ELSE "exit"

\* static.check(), classed telling whether the class of the document
\* element holds the name of the static corral
StaticCheck(sid, classed, matches) ==
    /\ call = Idle
    /\ RunStaticTrigger(sid, heapStatic[sid], heapStatic,
                        StaticCheckEvent(classed), FALSE, matches)
    /\ call' = StaticCall("check", sid, StaticCheckEvent(classed), FALSE, matches)
    /\ UNCHANGED <<draft, corrals, win, corralsStatic>>

\* new CorralStatic(name, axis, min, max) and new CorralStatic(name,
\* corral), of corral.js alone: the object is registered, then checked
CreateStatic(args, classed, matches) ==
    /\ call = Idle
    /\ draft = CorralJs
    /\ Len(heapStatic) < MaxStatics
    /\ LET sid == Len(heapStatic) + 1
           so == [name |-> args.name, corral |-> args.corral, axis |-> args.axis,
                  min |-> args.min, max |-> args.max, active |-> FALSE]
       IN /\ corralsStatic' = Register(corralsStatic, args.name, sid)
          /\ RunStaticTrigger(sid, so, Append(heapStatic, so),
                              StaticCheckEvent(classed), FALSE, matches)
          /\ call' = StaticCall("create", sid, StaticCheckEvent(classed), FALSE, matches)
    /\ UNCHANGED <<draft, corrals, win>>

\* the answers of matchMedia while static corrals are tried: no query
\* matches, as in a browser without media queries, or all do
MediaAnswers == { {}, AllQueries }

\* corral.js loaded
InitStatic == Init /\ draft = CorralJs

\* a driver of the static interface: corrals and static corrals are
\* constructed, and the static corrals triggered and checked
NextStatic ==
    \/ \E args \in CorralArgs, callbacks \in CtorCallbacks :
          \E matches \in { {}, { query(args, "min"), query(args, "max") } } :
             CreateCorral(args, callbacks, matches)
    \/ \E args \in StaticArgs \cup { StaticArgsOf(id) : id \in ObjIds },
          classed \in BOOLEAN, matches \in MediaAnswers :
          CreateStatic(args, classed, matches)
    \/ \E sid \in StaticIds, eventName \in StaticEventNames, force \in BOOLEAN,
          matches \in MediaAnswers :
          StaticTrigger(sid, eventName, force, matches)
    \/ \E sid \in StaticIds, classed \in BOOLEAN :
          StaticCheck(sid, classed, {})
    \/ Return

SpecStatic == InitStatic /\ [][NextStatic]_vars

----------------------------------------------------------------------------
(* Vocabulary of the claims *)

\* conjunctionActive == (lowerActive && upperActive)
Consistent(active) == active["both"] = (active["min"] /\ active["max"])

\* the events of a log, as <<fence, action>> pairs in order
EventNames(lg) == [i \in 1..Len(lg) |-> <<lg[i].fence, lg[i].action>>]

RECURSIVE Occurrences(_, _)
\* how often x occurs in seq
Occurrences(seq, x) ==
    IF seq = <<>> THEN 0
    ELSE (IF Head(seq) = x THEN 1 ELSE 0) + Occurrences(Tail(seq), x)

RECURSIVE SubscribedCount(_, _, _)
\* how often cb is subscribed to an action in the lists of a fence
SubscribedCount(slots, action, cb) ==
    IF slots = <<>> THEN 0
    ELSE (IF Head(slots).key.action = action
          THEN Occurrences(Head(slots).fns, cb) ELSE 0)
         + SubscribedCount(Tail(slots), action, cb)

\* event e called every callback object o has subscribed to it, each as
\* often as it is subscribed
CalledAll(o, e) ==
    \A cb \in Callbacks :
        Occurrences(e.calls, cb) = SubscribedCount(o.cbs[e.fence], e.action, cb)

\* the answers of matchMedia for the two fences of object o in a call
Answer(c, o, fence) == query(o, fence) \in c.matches

\* a check of an object: check() on it, or its construction
IsCheck(c) == c.op \in {"check", "create"}

----------------------------------------------------------------------------
(* Claims *)

\* C1: trigger(b, d) without force while state[b] already equals
\* (d == enter) invokes no callback and changes no flag; an unforced trigger
\* that proceeds dispatches (b, d) once, and when it returns normally it
\* has called every callback subscribed to (b, d) exactly once and left
\* state[b] == (d == enter), so that a second unforced trigger(b, d) is the
\* no-op of the first sentence.
C1_Step ==
    (call'.op = "trigger" /\ ~call'.force) =>
        LET id == call'.obj
            b == call'.fence
            d == call'.action
            own == { i \in 1..Len(log') :
                        log'[i].fence = b /\ log'[i].action = d }
        IN IF heap[id].active[b] = (d = "enter")
           THEN /\ log' = <<>>
                /\ heap'[id].active = heap[id].active
                /\ ~threw'
           ELSE /\ own = {1}
                /\ ~threw' => /\ CalledAll(heap[id], log'[1])
                              /\ heap'[id].active[b] = (d = "enter")
C1_UnforcedTriggerIdempotent == [][C1_Step]_vars

\* an unforced trigger of an event that has fired already, on a fence with
\* a callback subscribed to that event, has returned
C1_Witness ==
    /\ call.op = "trigger" /\ ~call.force
    /\ log = <<>>
    /\ heap[call.obj].active[call.fence] = (call.action = "enter")
    /\ \E cb \in Callbacks :
          SubscribedCount(heap[call.obj].cbs[call.fence], call.action, cb) > 0

RECURSIVE Alternates(_, _, _, _)
\* the events trigger dispatched on fence b of object id in lg alternate
\* between enter and exit, the first differing from last
Alternates(lg, id, b, last) ==
    IF lg = <<>> THEN TRUE
    ELSE LET e == Head(lg)
         IN IF e.obj = id /\ e.fence = b /\ e.depth > 0
            THEN e.action # last /\ Alternates(Tail(lg), id, b, e.action)
            ELSE Alternates(Tail(lg), id, b, last)

\* C2: in any sequence of create, check and unforced trigger calls in which
\* no callback raises, the events dispatched on min, and those on max,
\* alternate between enter and exit, starting with enter.
C2_Step ==
    \A id \in DOMAIN heap' : \A b \in {"min", "max"} :
        Alternates(log', id, b,
                   IF id \in DOMAIN heap THEN heap[id].fired[b] ELSE "exit")
C2_ElementaryEventsAlternate == [][C2_Step]_vars

\* C2 for src/corral.js alone
C2_InCorralJs == [][draft = CorralJs => C2_Step]_vars

\* C3: after every trigger call that returns normally, whatever its
\* arguments, conjunctionActive == (lowerActive && upperActive).
C3_ConsistentAfterTrigger ==
    (call.op = "trigger" /\ ~threw) => Consistent(heap[call.obj].active)

\* C4: after check() returns normally, and after the constructor does, the
\* flag of min equals the answer for min and the flag of max the answer for
\* max.
C4_FlagsEqualAnswers ==
    (IsCheck(call) /\ ~threw) =>
        \A fence \in {"min", "max"} :
            heap[call.obj].active[fence] = Answer(call, heap[call.obj], fence)

\* C4 for src/corral.js alone
C4_InCorralJs == draft = CorralJs => C4_FlagsEqualAnswers

\* C5: when checkAllCorrals has returned normally, a second call with the
\* same answers dispatches no event and changes no flag.
C5_SecondCheckAllIsNoOp ==
    (call.op = "checkAll" /\ ~threw) =>
        LET again == checkAllLoop(corrals, heap, staticAxes, call.matches, <<>>, 1)
        IN again.log = <<>> /\ again.heap = heap

\* C5 for src/corral.js alone
C5_InCorralJs == draft = CorralJs => C5_SecondCheckAllIsNoOp

\* C6: a check of a corral whose three flags are inactive, with both
\* answers true, that returns normally dispatches exactly enter-min,
\* enter-max, enter-both, in this order.
C6_Step ==
    LET c == call'
    IN (/\ IsCheck(c)
        /\ ~threw'
        /\ c.op = "check" => heap[c.obj].active = NewActive
        /\ QueriesOf(heap'[c.obj]) \subseteq c.matches)
       => EventNames(log') = << <<"min", "enter">>, <<"max", "enter">>,
                                <<"both", "enter">> >>
C6_ThreeEntersInOrder == [][C6_Step]_vars

\* check() has dispatched three events on a corral that was inactive, and
\* called a callback for the last
C6_Witness ==
    /\ call.op = "check"
    /\ Len(log) = 3
    /\ log[1].at = NewActive
    /\ QueriesOf(heap[call.obj]) \subseteq call.matches
    /\ log[3].calls # <<>>

\* C7 as claimed: no enter-both event is dispatched while only one of the
\* flags of min and max is set.
C7_Original ==
    \A i \in 1..Len(log) :
        (log[i].fence = "both" /\ log[i].action = "enter")
            => (log[i].at["min"] <=> log[i].at["max"])

\* C7 as amended: the enter-both event that a trigger of enter-min or
\* enter-max derives (the nested trigger call, which check() and the
\* constructor reach too) is dispatched only while the flags of min and max
\* are both set.
C7_DerivedEnterBothGated ==
    \A i \in 1..Len(log) :
        (log[i].fence = "both" /\ log[i].action = "enter" /\ log[i].depth = 2)
            => (log[i].at["min"] /\ log[i].at["max"])

\* a derived enter-both event has been dispatched and has called a callback
C7_Witness ==
    \E i \in 1..Len(log) :
        /\ log[i].fence = "both" /\ log[i].action = "enter"
        /\ log[i].depth = 2
        /\ log[i].calls # <<>>

\* C8: a check of a corral with all three flags set, with the answer for
\* max false and the answer for min true, that returns normally dispatches
\* exactly exit-max and then exit-both, and leaves the flag of min set.
C8_Step ==
    LET c == call'
    IN (/\ c.op = "check"
        /\ ~threw'
        /\ heap[c.obj].active = [f \in fenceNames |-> TRUE]
        /\ Answer(c, heap[c.obj], "min")
        /\ ~Answer(c, heap[c.obj], "max"))
       => /\ EventNames(log') = << <<"max", "exit">>, <<"both", "exit">> >>
          /\ heap'[c.obj].active["min"]
C8_ExitMaxKeepsMin == [][C8_Step]_vars

\* C8 for src/corral.js alone
C8_InCorralJs == [][draft = CorralJs => C8_Step]_vars

\* C9: a check of a corral with all three flags set, with both answers
\* false, that returns normally dispatches each of exit-min, exit-max and
\* exit-both exactly once, and nothing else.
C9_Step ==
    LET c == call'
    IN (/\ c.op = "check"
        /\ ~threw'
        /\ heap[c.obj].active = [f \in fenceNames |-> TRUE]
        /\ ~Answer(c, heap[c.obj], "min")
        /\ ~Answer(c, heap[c.obj], "max"))
       => /\ Len(log') = 3
          /\ \A f \in fenceNames :
                Occurrences(EventNames(log'), <<f, "exit">>) = 1
C9_ThreeExits == [][C9_Step]_vars

\* C9 for src/corral.js alone
C9_InCorralJs == [][draft = CorralJs => C9_Step]_vars

\* C10: trigger(b, d, force = true) while state[b] already equals
\* (d == enter) dispatches (b, d) all the same, and when it returns normally
\* it has called every callback subscribed to (b, d).
C10_Step ==
    LET c == call'
    IN (/\ c.op = "trigger"
        /\ c.force
        /\ heap[c.obj].active[c.fence] = (c.action = "enter"))
       => /\ log' # <<>>
          /\ log'[1].fence = c.fence
          /\ log'[1].action = c.action
          /\ log'[1].depth = 1
          /\ ~threw' => CalledAll(heap[c.obj], log'[1])
C10_ForceRefires == [][C10_Step]_vars

\* a forced trigger of an event that had fired already has called a
\* callback
C10_Witness ==
    /\ call.op = "trigger" /\ call.force
    /\ log # <<>>
    /\ log[1].at[call.fence] = (call.action = "enter")
    /\ log[1].calls # <<>>
    /\ ~threw

\* C11: after a trigger of (both, d) that proceeds (the flag of both
\* differing from (d == enter), or force) and returns normally, the flags
\* of min, max and both all equal (d == enter).
C11_Step ==
    LET c == call'
    IN (/\ c.op = "trigger"
        /\ c.fence = "both"
        /\ ~threw'
        /\ (heap[c.obj].active["both"] # (c.action = "enter") \/ c.force))
       => \A f \in fenceNames :
             heap'[c.obj].active[f] = (c.action = "enter")
C11_BothSetsConstituents == [][C11_Step]_vars

\* C11 for src/unnamed/part_000 alone
C11_InPart000 == [][draft = Part000 => C11_Step]_vars

\* C12: a trigger of (b, d) on min or max with triggerBoth set that
\* proceeds and returns normally, while the complement of b is active and
\* the flag of both differs from (d == enter) or force is set, dispatches
\* the event (both, d) as well and leaves the flag of both at (d == enter).
C12_Step ==
    LET c == call'
        enter == (c.action = "enter")
    IN (/\ c.op = "trigger"
        /\ c.fence \in {"min", "max"}
        /\ c.triggerBoth
        /\ ~threw'
        /\ (heap[c.obj].active[c.fence] # enter \/ c.force)
        /\ heap[c.obj].active[Complement(c.fence)]
        /\ (heap[c.obj].active["both"] # enter \/ c.force))
       => /\ \E i \in 1..Len(log') :
                log'[i].fence = "both" /\ log'[i].action = c.action
          /\ heap'[c.obj].active["both"] = enter
C12_CascadeAlsoWhenForced == [][C12_Step]_vars

\* C12 for the triggers that are not forced
C12_Unforced == [][~call'.force => C12_Step]_vars

\* C13: after check() returns normally, whatever the flags were before,
\* both.active == (min.active && max.active).
C13_CheckRestoresInvariant ==
    (call.op = "check" /\ ~threw) => Consistent(heap[call.obj].active)

\* the callbacks kept under key k of a fence, none when the key is missing
SlotFns(slots, k) ==
    LET hit == { i \in 1..Len(slots) : slots[i].key = k }
    IN IF hit = {} THEN <<>> ELSE slots[CHOOSE i \in hit : TRUE].fns

\* every key an event name can stand for
EventKeys == { Key(action, ns) : action \in actionNames, ns \in EventNamespaces }

\* C14: on(b, d, cb) calls cb at once, exactly once, if and only if the
\* flag of b equals (d == enter) when on is called; when on returns
\* normally, cb is the last entry of the list of (b, d) and every other
\* entry is as before.
C14_Step ==
    LET c == call'
        before == heap[c.obj].cbs
        after == heap'[c.obj].cbs
        k == Key(c.action, NoNamespace)
    IN c.op = "on" =>
        /\ IF heap[c.obj].active[c.fence] = (c.action = "enter")
           THEN /\ Len(log') = 1
                /\ log'[1].fence = c.fence /\ log'[1].action = c.action
                /\ log'[1].calls = <<c.cb>>
           ELSE log' = <<>>
        /\ ~threw' =>
              /\ SlotFns(after[c.fence], k)
                    = Append(SlotFns(before[c.fence], k), c.cb)
              /\ \A f \in fenceNames, j \in EventKeys :
                    (f # c.fence \/ j # k)
                        => SlotFns(after[f], j) = SlotFns(before[f], j)
C14_OnCallsAndAppends == [][C14_Step]_vars

\* on has called a callback at once and appended it after another one
C14_Witness ==
    /\ call.op = "on"
    /\ ~threw
    /\ Len(log) = 1
    /\ log[1].calls = <<call.cb>>
    /\ Len(SlotFns(heap[call.obj].cbs[call.fence],
                   Key(call.action, NoNamespace))) = 2

\* on has appended a callback without calling it
C14_WitnessLater ==
    /\ call.op = "on"
    /\ log = <<>>
    /\ SlotFns(heap[call.obj].cbs[call.fence],
               Key(call.action, NoNamespace)) # <<>>

\* the callbacks a dispatch of an action on a fence runs, in its order
DispatchOrder(slots, action) ==
    IF draft = CorralJs THEN Listeners(slots, action)
    ELSE ListenersDraft(slots, action)

\* C15: callbacks run in the order in which they were subscribed, with or
\* without a namespace: an on(b, d, cb) that returns normally puts cb
\* behind every callback that a dispatch of (b, d) ran before.
C15_Step ==
    LET c == call'
    IN (c.op = "on" /\ ~threw') =>
          DispatchOrder(heap'[c.obj].cbs[c.fence], c.action)
             = Append(DispatchOrder(heap[c.obj].cbs[c.fence], c.action), c.cb)
C15_DispatchInSubscriptionOrder == [][C15_Step]_vars

\* C15 for src/unnamed/part_000 alone, which has no namespaces
C15_InPart000 == [][draft = Part000 => C15_Step]_vars

\* C16: after off(b, d) without callback and without namespace, a
\* dispatch of (b, d) calls no callback.
C16_OffLeavesNoEntry ==
    (call.op = "off" /\ call.ns = NoNamespace /\ call.cb = NoCallback)
        => DispatchOrder(heap[call.obj].cbs[call.fence], call.action) = <<>>

\* C17 as claimed: an off with a namespace that returns normally removes
\* every entry of that namespace on the fence, in both directions, and no
\* entry of another namespace or of none.
C17_OriginalStep ==
    LET c == call'
        before == heap[c.obj].cbs
        after == heap'[c.obj].cbs
    IN (c.op = "off" /\ c.ns # NoNamespace /\ ~threw') =>
          /\ \A action \in actionNames :
                SlotFns(after[c.fence], Key(action, c.ns)) = <<>>
          /\ \A f \in fenceNames, j \in EventKeys :
                (f # c.fence \/ j.ns # c.ns)
                    => SlotFns(after[f], j) = SlotFns(before[f], j)
C17_Original == [][C17_OriginalStep]_vars

\* C17 as amended: an off(b, d) with a namespace that returns normally
\* removes every entry of that namespace for (b, d), and no other entry:
\* not those of that namespace in the other direction, and none of another
\* namespace or of none.
C17_Step ==
    LET c == call'
        before == heap[c.obj].cbs
        after == heap'[c.obj].cbs
        k == Key(c.action, c.ns)
    IN (c.op = "off" /\ c.ns # NoNamespace /\ ~threw') =>
          /\ SlotFns(after[c.fence], k) = <<>>
          /\ \A f \in fenceNames, j \in EventKeys :
                (f # c.fence \/ j # k)
                    => SlotFns(after[f], j) = SlotFns(before[f], j)
C17_OffNamespaceOneDirection == [][C17_Step]_vars

\* an off with a namespace has removed a callback and left one of the same
\* namespace in the other direction
C17_Witness ==
    /\ call.op = "off"
    /\ call.ns # NoNamespace
    /\ ~threw
    /\ call.had # <<>>
    /\ \E action \in actionNames :
          /\ action # call.action
          /\ SlotFns(heap[call.obj].cbs[call.fence], Key(action, call.ns)) # <<>>

\* seq without its i-th element
Without(seq, i) == SubSeq(seq, 1, i - 1) \o SubSeq(seq, i + 1, Len(seq))

\* C18: a callback subscribed twice to (b, d) is called twice per dispatch,
\* and off(b, d, cb) removes exactly one of the two entries, leaving the
\* others in their order.
C18_Step ==
    LET c == call'
        before == DispatchOrder(heap[c.obj].cbs[c.fence], c.action)
        after == DispatchOrder(heap'[c.obj].cbs[c.fence], c.action)
    IN (/\ c.op = "off"
        /\ c.ns = NoNamespace
        /\ c.cb # NoCallback
        /\ Occurrences(SlotFns(heap[c.obj].cbs[c.fence],
                               Key(c.action, NoNamespace)), c.cb) = 2)
       => \E i \in 1..Len(before) :
             before[i] = c.cb /\ after = Without(before, i)
C18_OffRemovesOneDuplicate == [][C18_Step]_vars

\* the first half of C18: a dispatch that returns normally calls a
\* callback as often as it is subscribed
C18_DuplicatesBothCalled ==
    (call.op = "trigger" /\ ~threw /\ log # <<>>)
        => CalledAll(heap[call.obj], log[1])

\* C19: Corral.remove(x), x being the name or the instance of a corral
\* that is registered, returns true and unregisters it; the same call
\* made again at once returns false and changes nothing.
C19_Step ==
    LET c == call'
        again == removeCorral(corrals', c.way = "instance", c.name)
    IN (/\ c.op = "remove"
        /\ c.way \in {"name", "instance"}
        /\ c.obj \in RegisteredIds)
       => /\ c.ret = "true"
          /\ c.obj \notin { corrals'[i].obj : i \in 1..Len(corrals') }
          /\ corrals' = Unregister(corrals, c.name)
          /\ again = [corrals |-> corrals', ret |-> "false"]
C19_RemoveOnceThenFalse == [][C19_Step]_vars

\* C19 for Corral.remove(name) alone
C19_ByName ==
    [][(call'.op = "remove" /\ call'.way # "name") \/ C19_Step]_vars

\* the queries of every object constructed
HeapQueries(h) == UNION { QueriesOf(h[id]) : id \in 1..Len(h) }

\* C20: once a registered corral has been removed, by name or by its own
\* remove method, checkAllCorrals dispatches none of its events and
\* changes none of its flags, whatever the queries answer.
C20_Step ==
    LET c == call'
    IN (/\ c.op = "remove"
        /\ c.way \in {"name", "method"}
        /\ c.obj \in RegisteredIds)
       => \A matches \in SUBSET HeapQueries(heap') :
             LET r == checkAllLoop(corrals', heap', staticAxes', matches, <<>>, 1)
             IN /\ \A i \in 1..Len(r.log) : r.log[i].obj # c.obj
                /\ r.heap[c.obj] = heap'[c.obj]
C20_RemovedIsNotChecked == [][C20_Step]_vars

\* C20 for Corral.remove(name) alone
C20_ByName ==
    [][(call'.op = "remove" /\ call'.way # "name") \/ C20_Step]_vars

\* C21: a remove call dispatches no event, leaves every flag (and every
\* other field) of every object as it was, and leaves every corral of
\* another name registered as before.
C21_Step ==
    LET c == call'
    IN c.op = "remove" =>
          /\ log' = <<>>
          /\ ~threw'
          /\ heap' = heap
          /\ SelectSeq(corrals', LAMBDA e : e.name # c.name)
                = SelectSeq(corrals, LAMBDA e : e.name # c.name)
C21_RemoveIsNoTransition == [][C21_Step]_vars

\* an active corral with callbacks has been removed while another corral
\* is registered
C21_Witness ==
    /\ call.op = "remove"
    /\ call.ret = "true"
    /\ heap[call.obj].active["both"]
    /\ Subscribed(heap[call.obj]) > 0
    /\ corrals # <<>>

\* C22: a constructor call with a name that is registered replaces the
\* corral of that name: Corral.get(name) is the new object, and
\* checkAllCorrals dispatches no event of the replaced object and changes
\* none of its flags, whatever the queries answer.
C22_Step ==
    LET c == call'
        name == heap'[c.obj].name
        old == Lookup(corrals, name)
    IN (c.op = "create" /\ Registered(corrals, name)) =>
          /\ Lookup(corrals', name) = c.obj
          /\ c.obj # old
          /\ \A i \in 1..Len(corrals') : corrals'[i].obj # old
          /\ \A matches \in SUBSET HeapQueries(heap') :
                LET r == checkAllLoop(corrals', heap', staticAxes', matches, <<>>, 1)
                IN /\ \A i \in 1..Len(r.log) : r.log[i].obj # old
                   /\ r.heap[old] = heap'[old]
C22_CreateReplaces == [][C22_Step]_vars

\* a corral with callbacks has been replaced by one of the same name
C22_Witness ==
    /\ call.op = "create"
    /\ Len(heap) = 2
    /\ heap[1].name = heap[2].name
    /\ call.obj = 2
    /\ Subscribed(heap[1]) > 0
    /\ Lookup(corrals, heap[2].name) = 2

\* whether a callback of the sequence raises
AnyRaises(fns) == \E i \in 1..Len(fns) : Raises(fns[i])

\* C24: when a callback raises during the dispatch of (b, d), the callbacks
\* behind it in the list of (b, d) are not called, nothing is dispatched
\* afterwards, the call (trigger, check, checkAllCorrals or the
\* constructor) ends with the exception, and the flag of b is what it was
\* when the dispatch started; for trigger, what it was before the call.
C24_Step ==
    LET c == call'
    IN c.op \in {"trigger", "check", "checkAll", "create"} =>
          \A i \in 1..Len(log') :
             LET e == log'[i]
                 list == DispatchOrder(heap'[e.obj].cbs[e.fence], e.action)
                 n == Len(e.calls)
             IN AnyRaises(e.calls) =>
                   /\ threw'
                   /\ i = Len(log')
                   /\ Raises(e.calls[n])
                   /\ ~AnyRaises(SubSeq(e.calls, 1, n - 1))
                   /\ n <= Len(list)
                   /\ e.calls = SubSeq(list, 1, n)
                   /\ heap'[e.obj].active[e.fence] = e.at[e.fence]
                   /\ c.op = "trigger" =>
                         heap'[e.obj].active[e.fence] = heap[e.obj].active[e.fence]
C24_RaisingCallbackAborts == [][C24_Step]_vars

\* a trigger whose first callback raised while a second one was subscribed
\* behind it
C24_Witness ==
    /\ call.op = "trigger"
    /\ threw
    /\ Len(log) = 1
    /\ log[1].calls = <<"boom">>
    /\ DispatchOrder(heap[call.obj].cbs[call.fence], call.action) = <<"boom", "f">>

\* a check that ended with the exception of a callback of the derived event
C24_WitnessCheck ==
    /\ call.op = "check"
    /\ threw
    /\ Len(log) > 1
    /\ log[Len(log)].depth = 2
    /\ AnyRaises(log[Len(log)].calls)

\* C28: a trigger call, from any state and with any fence, action, force
\* and triggerBoth, ends after at most one nested trigger call: the
\* deepest call is the first or the second, and no event is dispatched
\* from a deeper one.
C28_DepthAtMostTwo ==
    /\ \A id \in ObjIds, fence \in fenceNames, action \in actionNames,
          force \in BOOLEAN, triggerBoth \in BOOLEAN :
          LET s == TriggerOf(id, heap[id].cbs,
                             TriggerState(heap[id].active, <<>>),
                             fence, action, force, triggerBoth)
          IN /\ s.deepest \in {1, 2}
             /\ s.depth = 0
             /\ \A i \in 1..Len(s.log) : s.log[i].depth \in {1, 2}
    /\ \A i \in 1..Len(log) : log[i].depth \in {0, 1, 2}

\* a trigger that made the nested call, whose callbacks returned
C28_Witness ==
    /\ call.op = "trigger"
    /\ ~threw
    /\ Len(log) = 2
    /\ log[2].depth = 2
    /\ log[2].calls # <<>>

\* C29: trigger of an event of min or max with triggerBoth false dispatches
\* that event only: no event of 'both' is dispatched, and the flag of
\* 'both' and the flag of the complement stay as they were.
C29_Step ==
    LET c == call'
    IN (c.op = "trigger" /\ ~c.triggerBoth /\ c.fence \in {"min", "max"}) =>
          /\ Len(log') <= 1
          /\ \A i \in 1..Len(log') :
                /\ log'[i].fence = c.fence
                /\ log'[i].action = c.action
                /\ log'[i].depth = 1
          /\ heap'[c.obj].active["both"] = heap[c.obj].active["both"]
          /\ heap'[c.obj].active[Complement(c.fence)]
                = heap[c.obj].active[Complement(c.fence)]
C29_NoCascadeWhenTold == [][C29_Step]_vars

\* an unforced enter-min without cascade that called a callback while max
\* was active and 'both' was not
C29_Witness ==
    /\ call.op = "trigger"
    /\ ~call.triggerBoth
    /\ ~call.force
    /\ call.fence = "min"
    /\ call.action = "enter"
    /\ ~threw
    /\ Len(log) = 1
    /\ log[1].calls # <<>>
    /\ heap[call.obj].active["max"]
    /\ ~heap[call.obj].active["both"]

\* C23 as claimed: Corral.on, Corral.off and Corral.trigger called with a
\* name that no registered corral has end with an error and change
\* nothing.
C23_Step ==
    LET c == call'
    IN (c.op = "helper" /\ ~c.found) =>
          /\ threw'
          /\ log' = <<>>
          /\ heap' = heap
          /\ corrals' = corrals
C23_UnknownNameRaises == [][C23_Step]_vars

\* an event name with an unknown direction or an unknown boundary: the part
\* before the first hyphen is no action, or the part behind it is missing
\* or no fence
Malformed(eventName) ==
    \/ Len(eventName.head) < 2
    \/ eventName.head[1] \notin {"enter", "exit"}
    \/ eventName.head[2] \notin {"min", "max", "both"}

\* C25: on, off and trigger called with an event name whose direction or
\* boundary is unknown end with an error, call no callback, and change no
\* flag and no callback list.
C25_Step ==
    \A id \in ObjIds, eventName \in RawEventNames :
       Malformed(eventName) =>
          \A cb \in OffCallbacks :
             (\/ cb \in Callbacks /\ OnNamed(id, eventName, cb)
              \/ OffNamed(id, eventName, cb)
              \/ TriggerNamed(id, eventName, FALSE, TRUE))
             => /\ threw'
                /\ log' = <<>>
                /\ heap' = heap
                /\ corrals' = corrals
C25_MalformedNameRaises == [][C25_Step]_vars

\* off('leave-min') has been refused on a corral that is active on min and
\* holds a callback for enter-min
C25_Witness ==
    /\ call.op = "named"
    /\ call.method = "off"
    /\ call.eventName = EventName(<<"leave", "min">>, <<>>)
    /\ threw
    /\ heap[call.obj].active["min"]
    /\ SlotFns(heap[call.obj].cbs["min"], Key("enter", NoNamespace)) # <<>>

\* on and trigger have been refused as well
C25_WitnessOn ==
    /\ call.op = "named"
    /\ call.method = "on"
    /\ call.eventName = EventName(<<"enter", "mid">>, <<"a">>)
    /\ threw
C25_WitnessTrigger ==
    /\ call.op = "named"
    /\ call.method = "trigger"
    /\ call.eventName = EventName(<<"enter">>, <<>>)
    /\ threw
    /\ Subscribed(heap[call.obj]) > 0

\* C26 as claimed: Corral.breakpoints() returns one entry for every
\* registered name, with the axis of the corral and its min and max (Null
\* where it has none).
C26_Step ==
    LET c == call'
    IN c.op = "breakpoints" =>
          /\ ~threw'
          /\ c.ret = { [name |-> corrals[i].name,
                        axis |-> heap[corrals[i].obj].axis,
                        min |-> heap[corrals[i].obj].min,
                        max |-> heap[corrals[i].obj].max] : i \in 1..Len(corrals) }
C26_OneEntryPerCorral == [][C26_Step]_vars

\* C30: the query of a fence carries the corral's own bound when it has
\* one, the lower sentinel for a missing min and the upper sentinel for a
\* missing max; and the construction of a corral without min, for which
\* matchMedia accepts the sentinel query and the query of max, dispatches
\* enter-min, enter-max and enter-both when it returns normally.
C30_Step ==
    LET c == call'
        o == heap'[c.obj]
    IN c.op = "create" =>
          /\ query(o, "min") =
                [axis |-> o.axis, fence |-> "min",
                 value |-> IF o.min = Null THEN MinSentinel ELSE o.min]
          /\ query(o, "max") =
                [axis |-> o.axis, fence |-> "max",
                 value |-> IF o.max = Null THEN MaxSentinel ELSE o.max]
          /\ (/\ o.min = Null
              /\ o.max # Null
              /\ ~threw'
              /\ [axis |-> o.axis, fence |-> "min", value |-> MinSentinel]
                    \in c.matches
              /\ [axis |-> o.axis, fence |-> "max", value |-> o.max]
                    \in c.matches)
             => EventNames(log') = << <<"min", "enter">>, <<"max", "enter">>,
                                      <<"both", "enter">> >>
C30_SentinelQueries == [][C30_Step]_vars

\* a corral without min has been constructed while the sentinel query and
\* the query of max matched, and a callback of enter-both was called
C30_Witness ==
    /\ call.op = "create"
    /\ heap[call.obj].min = Null
    /\ [axis |-> "width", fence |-> "min", value |-> 1] \in call.matches
    /\ [axis |-> "width", fence |-> "max", value |-> 320] \in call.matches
    /\ Len(log) = 3
    /\ log[3].calls # <<>>

\* a corral without max has been constructed with the upper sentinel in
\* its query
C30_WitnessUpper ==
    /\ call.op = "create"
    /\ heap[call.obj].max = Null
    /\ [axis |-> "width", fence |-> "max", value |-> 20000] \in call.matches
    /\ heap[call.obj].active["max"]

\* C27 as claimed: a resize event that changes the size of the viewport,
\* in width, in height or in both, compared with the size at the event
\* before, is followed by a run of checkAllCorrals once the events pause
\* for 100 ms.
C27_ResizeLeadsToCheck == win.unchecked ~> ~win.unchecked

\* C27, the step of the handler: a resize event that changes the size
\* leaves the timeout pending.
C27_Step ==
    (win'.notified # win.notified) => win'.timer
C27_ResizeSetsTimer == [][C27_Step]_vars

\* C27 for src/unnamed/part_000 alone, where it holds
C27_InPart000 == (draft = Part000 /\ win.unchecked) ~> ~win.unchecked

\* C31: while the flags of a corral are changed by the constructor, check()
\* and checkAllCorrals alone, and no callback raises, both.active ==
\* (min.active && max.active) holds after every call, whatever matchMedia
\* answers.
C31_ConsistentUnderChecks ==
    ~threw => \A id \in ObjIds : Consistent(heap[id].active)

\* a check has taken a corral out of 'both' by the derived exit event, and
\* a check has brought one in by the derived enter event
C31_Witness ==
    /\ call.op \in {"check", "checkAll"}
    /\ ~threw
    /\ \E i \in 1..Len(log) :
          /\ log[i].depth = 2
          /\ log[i].action = "exit"
          /\ log[i].calls # <<>>
C31_WitnessEnter ==
    /\ call.op \in {"check", "checkAll"}
    /\ ~threw
    /\ \E i \in 1..Len(log) : log[i].depth = 2 /\ log[i].action = "enter"
    /\ heap[log[1].obj].active["both"]

\* the objects a call checks: the one of check() and of the constructor,
\* the registered ones of checkAllCorrals
CheckedBy(c, reg) ==
    IF c.op = "checkAll" THEN { reg[i].obj : i \in 1..Len(reg) }
    ELSE IF IsCheck(c) THEN {c.obj}
    ELSE {}

\* C32: a check of a corral whose fence b (min or max) is inactive, with
\* the answer for b false, dispatches no exit-b event; a check of one whose
\* fence b is active, with the answer true, dispatches no enter-b event.
C32_Step ==
    LET c == call'
    IN \A id \in CheckedBy(c, corrals'), b \in {"min", "max"} :
          LET was == IF c.op = "create" THEN FALSE ELSE heap[id].active[b]
              answer == query(heap'[id], b) \in c.matches
              repeated == IF was THEN "enter" ELSE "exit"
          IN (was = answer) =>
                \A i \in 1..Len(log') :
                   ~ (/\ log'[i].obj = id
                      /\ log'[i].fence = b
                      /\ log'[i].action = repeated)
C32_NoRepeatedEvent == [][C32_Step]_vars

\* C32 for src/corral.js alone
C32_InCorralJs == [][draft = CorralJs => C32_Step]_vars

\* a check has found min inactive with the answer false and has dispatched
\* an event of max only, while a callback waits for exit-min
C32_Witness ==
    /\ call.op = "check"
    /\ query(heap[call.obj], "min") \notin call.matches
    /\ Len(log) = 1
    /\ log[1].fence = "max"
    /\ ~log[1].at["min"]
    /\ SlotFns(heap[call.obj].cbs["min"], Key("exit", NoNamespace)) # <<>>

\* a check has found max active with the answer true and has dispatched an
\* event of min only, while a callback waits for enter-max
C32_WitnessActive ==
    /\ call.op = "check"
    /\ query(heap[call.obj], "max") \in call.matches
    /\ log # <<>>
    /\ log[1].fence = "min"
    /\ log[1].at["max"]
    /\ SlotFns(heap[call.obj].cbs["max"], Key("enter", NoNamespace)) # <<>>

\* C33: off calls no callback, changes no flag of the corral, and changes
\* no callback list of a fence other than the one its event name names.
C33_Step ==
    LET c == call'
    IN c.op = "off" =>
          /\ log' = <<>>
          /\ heap'[c.obj].active = heap[c.obj].active
          /\ \A fence \in fenceNames \ {c.fence} :
                heap'[c.obj].cbs[fence] = heap[c.obj].cbs[fence]
          /\ \A id \in ObjIds \ {c.obj} : heap'[id] = heap[id]
C33_OffTouchesItsFenceOnly == [][C33_Step]_vars

\* off has removed the callbacks of an event of min from a corral that is
\* active on min and holds callbacks on 'both'
C33_Witness ==
    /\ call.op = "off"
    /\ ~threw
    /\ call.fence = "min"
    /\ call.had # <<>>
    /\ SlotFns(heap[call.obj].cbs["min"], Key(call.action, call.ns)) = <<>>
    /\ heap[call.obj].active["min"]
    /\ CountFns(heap[call.obj].cbs["both"]) > 0

\* C34 as claimed: when the constructor raises while it installs the
\* callbacks argument, the registry is as before: the name is registered
\* only if it was, and then for the corral it was registered for.
C34_Step ==
    LET c == call'
    IN (c.op = "create" /\ threw' /\ ~heap'[c.obj].methods) =>
          corrals' = corrals
C34_RefusedCreateKeepsRegistry == [][C34_Step]_vars

\* C34, the second half: checkAllCorrals raises only when a callback does;
\* it does not after a refused constructor call, whose object is
\* registered without its accessors
C34_CheckAllRuns ==
    call.op = "checkAll" =>
        (threw => \E i \in 1..Len(log) : AnyRaises(log[i].calls))

\* C35: at most one timeout of checkAllCorrals is pending, and it is the
\* one resizeEventTimeoutID names; while a burst of resize events that
\* called throttleEvent is on, one timeout is pending and none has run, and
\* once it has run, checkAllCorrals has run once since the last of them
\* and no timeout is left
C35_OneDebouncedRun ==
    /\ win.pending <= 1
    /\ win.timer <=> win.pending = 1
    /\ win.burst = 0 => (win.pending = 0 /\ win.runs = 0)
    /\ win.burst > 0 => win.pending + win.runs = 1

\* a burst of MaxBurst resize events has been followed by its one run
C35_Witness ==
    /\ win.burst = MaxBurst
    /\ win.runs = 1
    /\ win.pending = 0
    /\ call.op = "timeout"

\* the second resize event of a burst finds the timeout of the first
\* pending
C35_WitnessBurst ==
    /\ win.burst = 2
    /\ win.pending = 1
    /\ win.runs = 0
    /\ draft = CorralJs

\* the static corrals that are active on an axis
ActiveStatics(axis) ==
    { sid \in StaticIds :
        heapStatic[sid].active /\ staticAxis(heapStatic[sid], heap) = axis }

\* C36 as claimed: staticAxes holds an entry for an axis exactly when a
\* static corral on that axis is active, and the entry holds the min and
\* max of one of the active static corrals of the axis
C36_AxisEntryOfActiveStatic ==
    \A axis \in {"width", "height"} :
        /\ axis \in DOMAIN staticAxes <=> ActiveStatics(axis) # {}
        /\ axis \in DOMAIN staticAxes =>
              \E sid \in ActiveStatics(axis) :
                 /\ staticAxes[axis].min = staticBound(heapStatic[sid], heap, "min")
                 /\ staticAxes[axis].max = staticBound(heapStatic[sid], heap, "max")

\* C36, the case the claim names: an exit of one of two active static
\* corrals of an axis leaves the entry of the axis in staticAxes
C36_ExitStep ==
    LET c == call'
    IN (/\ call = Idle
        /\ c.op = "static"
        /\ c.eventName = "exit"
        /\ ~threw'
        /\ c.obj \in StaticIds
        /\ heapStatic[c.obj].active
        /\ \E sid \in StaticIds \ {c.obj} :
              /\ heapStatic[sid].active
              /\ staticAxis(heapStatic[sid], heap)
                    = staticAxis(heapStatic[c.obj], heap))
       => staticAxis(heapStatic[c.obj], heap) \in DOMAIN staticAxes'

C36_ExitKeepsSharedEntry == [][C36_ExitStep]_vars

\* the value of a fence of a Corral as its query gives it: the bound, or
\* 1 and 20000 for none
FenceValue(o, fence) == query(o, fence).value

\* C37: when a trigger of a static corral has returned while no media
\* query matched, every registered Corral has its min flag set exactly
\* when staticAxes holds, for the axis of the Corral, a min that is no
\* less than the Corral's, and its max flag exactly when staticAxes holds
\* a max that is no greater than the Corral's
C37_FlagsFollowStaticAxes ==
    (call.op = "static" /\ ~threw /\ call.matches = {})
    => \A id \in RegisteredIds :
          LET o == heap[id]
              held == o.axis \in DOMAIN staticAxes
          IN /\ o.active["min"]
                  <=> (/\ held
                       /\ staticAxes[o.axis].min # Null
                       /\ staticAxes[o.axis].min >= FenceValue(o, "min"))
             /\ o.active["max"]
                  <=> (/\ held
                       /\ staticAxes[o.axis].max # Null
                       /\ staticAxes[o.axis].max <= FenceValue(o, "max"))

\* two Corrals are registered and a trigger has left a static min that one
\* fence of each compares with: the min flags are set, and the max flag of
\* the first is not, the static max being none
C37_Witness ==
    /\ call.op = "static"
    /\ call.method = "trigger"
    /\ call.eventName = "enter"
    /\ ~threw
    /\ call.matches = {}
    /\ Len(corrals) = 2
    /\ "width" \in DOMAIN staticAxes
    /\ staticAxes["width"].max = Null
    /\ \A id \in RegisteredIds :
          heap[id].active["min"] /\ ~heap[id].active["max"]

\* an exit has returned and left no entry: flags of a registered Corral
\* are cleared
C37_WitnessExit ==
    /\ call.op = "static"
    /\ call.eventName = "exit"
    /\ ~threw
    /\ call.matches = {}
    /\ staticAxes = NoAxes
    /\ \E i \in 1..Len(log) : log[i].action = "exit"
    /\ \E id \in RegisteredIds : ~heap[id].active["max"]

====
